---------------------------- MODULE Spec2Model ----------------------------
(***************************************************************************)
(* A model of dedupe_yara_rule.py: the extractor (extract), the            *)
(* deduplicator (dedupe), the scheduler (dedupe_serial, dedupe_threaded)   *)
(* and the aggregation done by the script body.                            *)
(*                                                                         *)
(* Text is a sequence of tokens.  A token is a maximal run of characters   *)
(* that the three regular expressions of the script and the str methods it *)
(* uses never split: a word, one white-space character, one punctuation    *)
(* mark, a comment mark, or one raw byte above 0x7F of an undecoded file.  *)
(***************************************************************************)
EXTENDS Integers, Sequences, FiniteSets, TLC

(***************************************************************************)
(* Bounds of the model.                                                    *)
(***************************************************************************)
\* the longest file list a run is given
MaxFiles == 4
\* the size of the worker pool: __spin_threads__ is 10 in the script (line
\* 54); the model runs the same arithmetic with a smaller pool
SpinThreads == 2
\* how many input/output errors the environment raises in one run
MaxFaults == 1
\* the longest file list and the largest pool the scheduler is run on by
\* itself
MaxSchedFiles == 7
MaxSpin == 3

(***************************************************************************)
(* Tokens.                                                                 *)
(***************************************************************************)
SP == " "
NL == "\n"
WhiteSpace == {SP, NL}
\* the marks made of the characters * and /
CommentMarks == {"/*", "*/", "//"}
\* raw bytes above 0x7F, as they are in a file before it is decoded
RawBytes == {"x81", "x8D", "xA5"}
\* tokens made only of characters of the class
\* [0-9a-zA-Z_\@\#\$\%\^\&\(\)\-\=\:\s] of yara_rule_regex
HeaderToks ==
    WhiteSpace \cup {":", "rule", "private", "import", "condition", "true",
                     "false", "Foo", "Bar", "mal"}
\* tokens made only of characters of the class [\s+private\/\*]
PrefixToks == WhiteSpace \cup CommentMarks \cup {"private"}

(***************************************************************************)
(* Code point order of the tokens, for sorted(): Ord[t] < Ord[u] iff the   *)
(* text of t sorts before the text of u.  No token that can meet another   *)
(* at the same place of two compared strings is a prefix of it.            *)
(***************************************************************************)
TokenOrder ==
    << NL, SP, "\"pe\"", "*/", "/", "/*", "//", ":", "Bar", "Foo", "YEN",
       "AOGONEK", "TCARON", "a", "b", "c", "condition", "false", "from:",
       "import",
       "in", "mal", "private", "r1", "r2", "rule", "true", "u.yar", "v.yar",
       "w.yar", "x.yar", "y.yar", "z.yar", "{", "}" >>

Ord(t) == CHOOSE i \in 1..Len(TokenOrder) : TokenOrder[i] = t

(***************************************************************************)
(* str helpers.                                                            *)
(***************************************************************************)
RECURSIVE Concat(_)
\* "".join(list)
Concat(ss) == IF ss = << >> THEN << >> ELSE Head(ss) \o Concat(Tail(ss))

RECURSIVE SkipWhile(_, _, _)
\* the first index >= p of c whose token is not in S (Len(c) + 1 if none):
\* where a greedy run of a character class ends
SkipWhile(c, p, S) ==
    IF p <= Len(c) /\ c[p] \in S THEN SkipWhile(c, p + 1, S) ELSE p

RECURSIVE SkipBack(_, _, _)
\* the last index <= p of c whose token is not in S (0 if none)
SkipBack(c, p, S) ==
    IF p >= 1 /\ c[p] \in S THEN SkipBack(c, p - 1, S) ELSE p

\* str.strip(chars): the characters of S removed from both ends
StripSet(s, S) ==
    LET a == SkipWhile(s, 1, S)
        b == SkipBack(s, Len(s), S)
    IN  IF a > b THEN << >> ELSE SubSeq(s, a, b)

\* str.strip()
Strip(s) == StripSet(s, WhiteSpace)

RECURSIVE FindFrom(_, _, _)
\* the first index >= p of c holding token t, 0 if none
FindFrom(c, p, t) ==
    IF p > Len(c) THEN 0
    ELSE IF c[p] = t THEN p ELSE FindFrom(c, p + 1, t)

\* x in s, for strings
IsSubstring(x, s) ==
    \E i \in 0..(Len(s) - Len(x)) : SubSeq(s, i + 1, i + Len(x)) = x

\* ^ under re.MULTILINE
AtLineStart(c, p) == p = 1 \/ c[p - 1] = NL

RECURSIVE EolFrom(_, _)
\* the first index j >= p with $ (re.MULTILINE) matching just before token j
EolFrom(c, p) ==
    IF p > Len(c) \/ c[p] = NL THEN p ELSE EolFrom(c, p + 1)

(***************************************************************************)
(* Decoding (extract, lines 129-147).                                      *)
(***************************************************************************)
encodings == << "utf-8", "cp1252", "windows-1250", "windows-1252", "ascii" >>

\* what codec e makes of one token of a file: the character, or "ERR" when
\* the codec raises UnicodeDecodeError.  0x81 is undefined in every codec of
\* the list, 0x8D only in windows-1250 is a letter, 0xA5 is the yen sign in
\* cp1252 and A-ogonek in windows-1250; none of them alone is valid UTF-8.
DecodeTok(e, t) ==
    IF t \notin RawBytes THEN t
    ELSE CASE e \in {"cp1252", "windows-1252"} /\ t = "xA5" -> "YEN"
           [] e = "windows-1250" /\ t = "xA5" -> "AOGONEK"
           [] e = "windows-1250" /\ t = "x8D" -> "TCARON"
           [] OTHER -> "ERR"

\* rule_file.read() under codec e
Decode(e, bytes) ==
    IF \E i \in 1..Len(bytes) : DecodeTok(e, bytes[i]) = "ERR"
    THEN [ok |-> FALSE, text |-> << >>]
    ELSE [ok |-> TRUE, text |-> [i \in 1..Len(bytes) |-> DecodeTok(e, bytes[i])]]

\* the loop of line 130 without the break of line 136: the last codec decides
TryEncodingsNoBreak(bytes, i) ==
    LET r == Decode(encodings[Len(encodings)], bytes)
    IN  IF r.ok THEN r.text ELSE << >>

RECURSIVE TryEncodings(_, _)
\* the loop over encodings from the i-th on: the content of the first codec
\* that reads the file, << >> (None) when none does
TryEncodings(bytes, i) ==
    IF i > Len(encodings) THEN << >>
    ELSE LET r == Decode(encodings[i], bytes)
         IN  IF r.ok THEN r.text ELSE TryEncodings(bytes, i + 1)

ReadContent(bytes) == TryEncodings(bytes, 1)

(***************************************************************************)
(* The three regular expressions (lines 48-53) and findall.                *)
(***************************************************************************)
\* rules_re at p: the index of the last token of the match, 0 if no match.
\*   ^[\s+private\/\*]*  rule  \s  [header class]+  \{  .*?condition  .*?\s\}
MatchRuleAt(c, p) ==
    IF ~AtLineStart(c, p) THEN 0
    ELSE LET q == SkipWhile(c, p, PrefixToks)
         IN  IF ~(q + 1 <= Len(c) /\ c[q] = "rule" /\ c[q + 1] \in WhiteSpace)
             THEN 0
             ELSE LET h == SkipWhile(c, q + 2, HeaderToks)
                  IN  IF h = q + 2 \/ h > Len(c) \/ c[h] # "{" THEN 0
                      ELSE LET k == FindFrom(c, h + 1, "condition")
                               ends == {j \in (k + 1)..(Len(c) - 1) :
                                          c[j] \in WhiteSpace /\ c[j + 1] = "}"}
                           IN  IF k = 0 \/ ends = {} THEN 0
                               ELSE 1 + CHOOSE j \in ends :
                                          \A j2 \in ends : j <= j2

\* import_re at p:  ^import  \s+  .*?$
MatchImportAt(c, p) ==
    IF ~(AtLineStart(c, p) /\ c[p] = "import" /\ p + 1 <= Len(c)
         /\ c[p + 1] \in WhiteSpace)
    THEN 0
    ELSE EolFrom(c, SkipWhile(c, p + 1, WhiteSpace)) - 1

\* comments_re at p, its first group:  /\* ... \*+/  |  ^//.*?$
MatchCommentAt(c, p) ==
    IF c[p] = "/*" /\ FindFrom(c, p + 1, "*/") # 0
    THEN FindFrom(c, p + 1, "*/")
    ELSE IF c[p] = "//" /\ AtLineStart(c, p) THEN EolFrom(c, p + 1) - 1
    ELSE 0

\* the compiled patterns of lines 51-53, by name
MatchAt(re, c, p) ==
    CASE re = "rules_re"    -> MatchRuleAt(c, p)
      [] re = "import_re"   -> MatchImportAt(c, p)
      [] re = "comments_re" -> MatchCommentAt(c, p)

RECURSIVE FindAll(_, _, _)
\* re.findall(c) from index p on: the matches, left to right, none
\* overlapping another
FindAll(re, c, p) ==
    IF p > Len(c) THEN << >>
    ELSE LET e == MatchAt(re, c, p)
         IN  IF e # 0 THEN << SubSeq(c, p, e) >> \o FindAll(re, c, e + 1)
             ELSE FindAll(re, c, p + 1)

SelectComments(ms) == SelectSeq(ms, LAMBDA m :
    Strip(m) # << >> /\ Strip(m)[1] \in {"/*", "//"})

\* line 156: rule.strip().strip("*/").strip().strip("/*").strip()
CleanRule(r) ==
    Strip(StripSet(Strip(StripSet(Strip(r), {"/*", "*/", "//"})),
                   {"/*", "*/", "//"}))

\* line 167: the rules whose text is not in the joined comments
DropCommented(rules, comments) ==
    SelectSeq(rules, LAMBDA x : ~IsSubstring(x, Concat(comments)))

(***************************************************************************)
(* extract (lines 118-170), from the bytes of the file on.  The result     *)
(* (None, None, None) is three empty lists: dedupe only asks whether each  *)
(* is empty.                                                               *)
(***************************************************************************)
NoResult == [imports |-> << >>, rules |-> << >>, comments |-> << >>]

ExtractContent(content) ==
    LET found == FindAll("rules_re", content, 1)
        clean == [i \in 1..Len(found) |-> CleanRule(found[i])]
        imps  == FindAll("import_re", content, 1)
        cms   == SelectComments(FindAll("comments_re", content, 1))
    IN  IF found = << >> THEN NoResult
        ELSE [imports |-> imps,
              rules |-> IF cms = << >> THEN clean ELSE DropCommented(clean, cms),
              comments |-> cms]

extract(bytes) ==
    LET content == ReadContent(bytes)
    IN  IF content = << >> THEN NoResult ELSE ExtractContent(content)

\* lines 231-232: the key a rule block is registered under
RuleName(r) ==
    LET s == Strip(r)
        eol == FindFrom(s, 1, NL)
        line == Strip(IF eol = 0 THEN s ELSE SubSeq(s, 1, eol - 1))
        br == FindFrom(line, 1, "{")
        name == Strip(IF br = 0 THEN line ELSE SubSeq(line, 1, br - 1))
        col == FindFrom(r, 1, ":")
    IN  IF FindFrom(name, 1, ":") # 0 THEN Strip(SubSeq(r, 1, col - 1))
        ELSE name


(***************************************************************************)
(* sorted() over the kept rules (line 362).                                *)
(***************************************************************************)
RECURSIVE LexLess(_, _)
\* s < t for two strings
LexLess(s, t) ==
    IF s = << >> THEN t # << >>
    ELSE IF t = << >> THEN FALSE
    ELSE IF Head(s) = Head(t) THEN LexLess(Tail(s), Tail(t))
    ELSE Ord(Head(s)) < Ord(Head(t))

RECURSIVE PathText(_)
\* the path string of a file: its components joined by "/"
PathText(yf) ==
    IF Len(yf) <= 1 THEN yf
    ELSE << Head(yf), "/" >> \o PathText(Tail(yf))

\* line 240: "\n// rule from: {}\n".format(yf) + r.strip() + "\n".  The state
\* keeps the two parts of the string, which determine it.
Entry(yf, r) == [from |-> yf, body |-> Strip(r)]

EntryText(e) ==
    << NL, "//", SP, "rule", SP, "from:", SP >> \o PathText(e.from)
        \o << NL >> \o e.body \o << NL >>

RECURSIVE Insert(_, _)
Insert(x, s) ==
    IF s = << >> THEN << x >>
    ELSE IF LexLess(EntryText(x), EntryText(Head(s))) THEN << x >> \o s
    ELSE << Head(s) >> \o Insert(x, Tail(s))

\* the kept rules joined in the order the set lists them
Unsorted(l) == l

RECURSIVE sorted(_)
\* sorted(list): ascending, by the text of the entries
sorted(l) == IF l = << >> THEN << >> ELSE Insert(Head(l), sorted(Tail(l)))

\* list(a_set): the elements in some order
Orders(S) ==
    {s \in [1..Cardinality(S) -> S] : \A i, j \in DOMAIN s : i # j => s[i] # s[j]}

(***************************************************************************)
(* dict and path helpers of dedupe.                                        *)
(***************************************************************************)
\* d.get(k, [])
DictGet(d, k) == IF k \in DOMAIN d THEN d[k] ELSE << >>

\* d[k] = v
DictPut(d, k, v) == [x \in DOMAIN d \cup {k} |-> IF x = k THEN v ELSE d[x]]

\* line 193: os.path.basename(os.path.normpath(os.path.dirname(yf)))
RuleDir(yf) == yf[Len(yf) - 1]

\* line 196: os.path.basename(yf)
FileName(yf) == yf[Len(yf)]

RECURSIVE JoinBlank(_)
\* "\n\n".join(list)
JoinBlank(ss) ==
    IF ss = << >> THEN << >>
    ELSE IF Len(ss) = 1 THEN Head(ss)
    ELSE Head(ss) \o << NL, NL >> \o JoinBlank(Tail(ss))

\* write_file, lines 106-108: a list is stripped item by item, its empty
\* items dropped, and joined by a blank line
ListContents(contents) ==
    JoinBlank(SelectSeq([i \in 1..Len(contents) |-> Strip(contents[i])],
                        LAMBDA x : x # << >>))

\* write_file, lines 109-113, on a tree of output files: the file at
\* (dir, name) is created or truncated and holds contents after the header
\* line (the header carries a time stamp and is left out of the text)
WriteFile(tree, dir, name, contents) ==
    {f \in tree : ~(f.dir = dir /\ f.name = name)}
        \cup {[dir |-> dir, name |-> name, text |-> contents]}


(***************************************************************************)
(* The rule files of the runs.  A file is its path (the components of the  *)
(* string os.walk builds at line 331) and its bytes.  A run is given the   *)
(* files of one directory tree, in the order os.walk lists them.           *)
(***************************************************************************)
Body(v) == << SP, "{", SP, "condition", ":", SP, v, SP, "}" >>
FooTrue == << "rule", SP, "Foo" >> \o Body("true")
FooFalse == << "rule", SP, "Foo" >> \o Body("false")
BarTrue == << "rule", SP, "Bar" >> \o Body("true")

\* duplicates across files and inside a file, an import, a cp1252 byte
TreeDuplicates ==
    << [path |-> << "in", "a", "x.yar" >>, bytes |-> FooTrue],
       [path |-> << "in", "b", "y.yar" >>,
        bytes |-> FooFalse \o << NL >> \o BarTrue],
       [path |-> << "in", "b", "z.yar" >>,
        bytes |-> << "import", SP, "\"pe\"", NL >> \o FooTrue \o << NL >>
                      \o FooTrue],
       [path |-> << "in", "c", "w.yar" >>,
        bytes |-> << "rule", SP, "Bar", SP, "{", SP, "xA5", SP, "condition",
                     ":", SP, "true", SP, "}" >>] >>

\* commented-out rules, in both comment styles, and a file no codec reads,
\* all in one directory
TreeComments ==
    << [path |-> << "in", "a", "x.yar" >>,
        bytes |-> << "/*", SP >> \o BarTrue \o << SP, "*/", NL >> \o FooTrue],
       [path |-> << "in", "a", "u.yar" >>,
        bytes |-> << "rule", SP, "Bar", SP, "{", SP, "x81", SP, "condition",
                     ":", SP, "true", SP, "}" >>],
       [path |-> << "in", "a", "y.yar" >>,
        bytes |-> << "/*", SP >> \o FooTrue \o << SP, "*/" >>],
       [path |-> << "in", "a", "z.yar" >>,
        bytes |-> << "//", SP, "rule", SP, "Foo", SP, "{", NL,
                     "//", SP, "condition", ":", SP, "true", NL,
                     "//", SP, "}" >>] >>

\* qualifiers and tags, and two paths that end in the same directory and
\* file name
TreeNames ==
    << [path |-> << "in", "r1", "a", "x.yar" >>,
        bytes |-> << "private", SP >> \o FooTrue],
       [path |-> << "in", "r2", "a", "x.yar" >>,
        bytes |-> << "rule", SP, "Foo", SP, ":", SP, "mal" >> \o Body("true")
                      \o << NL >> \o BarTrue],
       [path |-> << "in", "r2", "a", "y.yar" >>,
        bytes |-> << "rule", SP, "Foo", SP, "{", SP, "x8D", SP, "condition",
                     ":", SP, "false", SP, "}" >>] >>

Trees == {TreeDuplicates, TreeComments, TreeNames}

RECURSIVE Pick(_, _, _)
\* the files of tree t whose index is in S, in the order of t, from index i
Pick(t, S, i) ==
    IF i > Len(t) THEN << >>
    ELSE (IF i \in S THEN << t[i] >> ELSE << >>) \o Pick(t, S, i + 1)

\* the file lists a run may be given: the .yar files found under args.path
FileLists ==
    {fs \in {Pick(t, S, 1) : t \in Trees, S \in SUBSET (1..4)} :
       1 <= Len(fs) /\ Len(fs) <= MaxFiles}


(***************************************************************************)
(* State.                                                                  *)
(***************************************************************************)
VARIABLES
    threaded,               \* args.threaded
    files,                  \* yara_files as built at line 331
    io_faults,              \* the input/output errors raised so far
    main_pc,                \* where the script body is
    shards,                 \* yara_files after line 263: the list of slices
    wk,                     \* per dedupe call: its place and its locals
    lock,                   \* lock: 0 when free, else the holder
    all_imports,
    all_yara_rules,
    rule_names,
    rule_dict,
    total_rules,
    total_duplicate_rules,
    total_rules_written,
    commented_dirs,         \* the directories under commented_rules
    commented_files,        \* the files under them
    deduped_dirs,           \* the directories under deduped_rules
    deduped_files,          \* the files under them
    all_in_one,             \* what line 364 writes to all_in_one.yar
    index,                  \* what lines 378-388 list and write
    spin_threads,           \* __spin_threads__
    pass_log,               \* history: the files taken at line 190, in order
    reg_log,                \* history: the registrations, in order
    out_log                 \* history: the artifacts written, and for what

env == << threaded, files, io_faults, spin_threads >>

merged == << all_in_one, index >>

registry ==
    << all_yara_rules, rule_names, rule_dict, total_duplicate_rules, reg_log >>

outputs ==
    << commented_dirs, commented_files, deduped_dirs, deduped_files, out_log >>

vars ==
    << env, main_pc, shards, wk, lock, all_imports, registry, total_rules,
       total_rules_written, outputs, merged, pass_log >>

\* the dedupe calls a run can have: one per slice, and a list of n files is
\* cut in at most n slices
Workers == 1..Len(files)

Idle ==
    [pc |-> "idle", fi |-> 0, ri |-> 0, imports |-> << >>, rules |-> << >>,
     comments |-> << >>, deduped_content |-> << >>, fresh |-> FALSE]

\* nothing listed and no index file written yet
NoIndex == [walk |-> << >>, lines |-> << >>, groups |-> << >>]

\* lines 41-47 and 55: the globals as the module sets them, no call made yet
Fresh ==
    /\ io_faults = 0
    /\ main_pc = "start"
    /\ shards = << >>
    /\ wk = [w \in Workers |-> Idle]
    /\ lock = 0
    /\ all_imports = {}
    /\ all_yara_rules = {}
    /\ rule_names = {}
    /\ rule_dict = << >>
    /\ total_rules = 0
    /\ total_duplicate_rules = 0
    /\ total_rules_written = 0
    /\ commented_dirs = {}
    /\ commented_files = {}
    /\ deduped_dirs = {}
    /\ deduped_files = {}
    /\ all_in_one = [imports |-> << >>, rules |-> << >>]
    /\ index = NoIndex
    /\ pass_log = << >>
    /\ reg_log = << >>
    /\ out_log = {}

\* the output directory holds the two empty trees the script makes at lines
\* 313-325
Init ==
    /\ threaded \in BOOLEAN
    /\ files \in FileLists
    /\ spin_threads = SpinThreads
    /\ Fresh

(***************************************************************************)
(* The scheduler: dedupe_serial and dedupe_threaded.                       *)
(***************************************************************************)
Min(a, b) == IF a <= b THEN a ELSE b

\* one slice per thread of the pool and no more: the files left over by the
\* division are in no slice
SlicesOfPool(fs, spin) ==
    LET total_items == Len(fs)
        pool == IF total_items <= spin THEN total_items ELSE spin
        each_thread_items_count == total_items \div pool
    IN  [k \in 1..pool |->
           SubSeq(fs, (k - 1) * each_thread_items_count + 1,
                  k * each_thread_items_count)]

\* lines 258-265: the slices of the file list
Slices(fs, spin) ==
    LET total_items == Len(fs)
        pool == IF total_items <= spin THEN total_items ELSE spin
        each_thread_items_count == total_items \div pool
        starts == {i \in 0..(total_items - 1) :
                     i % each_thread_items_count = 0}
    IN  [k \in 1..Cardinality(starts) |->
           SubSeq(fs, (k - 1) * each_thread_items_count + 1,
                  Min(k * each_thread_items_count, total_items))]

\* a dedupe call entering its loop over yara_files (line 190)
Started == [Idle EXCEPT !.pc = "extract", !.fi = 1]

\* lines 343-344, 249-251: dedupe runs over the whole list in the main thread
StartSerial ==
    /\ main_pc = "start"
    /\ ~threaded
    /\ shards' = << files >>
    /\ wk' = [w \in Workers |-> IF w = 1 THEN Started ELSE Idle]
    /\ main_pc' = "dedupe"
    /\ UNCHANGED << env, lock, all_imports, registry, total_rules,
                    total_rules_written, outputs, merged, pass_log >>

\* lines 341-342, 256-277: one thread per slice, each running dedupe on it
StartThreaded ==
    /\ main_pc = "start"
    /\ threaded
    /\ shards' = Slices(files, spin_threads)
    /\ spin_threads' = Len(shards')
    /\ wk' = [w \in Workers |-> IF w <= Len(shards') THEN Started ELSE Idle]
    /\ main_pc' = "join"
    /\ UNCHANGED << threaded, files, io_faults, lock, all_imports, registry, total_rules,
                    total_rules_written, outputs, merged, pass_log >>

(***************************************************************************)
(* dedupe (lines 173-246), one action per step another thread can observe. *)
(***************************************************************************)
CurFile(w) == shards[w][wk[w].fi]

\* the end of one pass of the loop of line 190: the next file, or the return
NextFile(w) ==
    IF wk[w].fi < Len(shards[w])
    THEN [Idle EXCEPT !.pc = "extract", !.fi = wk[w].fi + 1]
    ELSE [Idle EXCEPT !.pc = "done", !.fi = wk[w].fi]

\* line 199: nothing extracted, the file is passed over
NothingFound(res) ==
    res.imports = << >> /\ res.rules = << >> /\ res.comments = << >>

\* line 223: the file has rules to register, and gets a kept-rule artifact
HasRules(l) == l.rules # << >>

\* where dedupe goes after the commented rules: line 224, or the next file
AfterComments(w, l) ==
    IF HasRules(l) THEN [l EXCEPT !.pc = "batch_acq"] ELSE NextFile(w)

\* where dedupe goes after the imports: line 216, or on
AfterImports(w, l) ==
    IF l.comments # << >> THEN [l EXCEPT !.pc = "c_exists"]
    ELSE AfterComments(w, l)

\* lines 190-206
Extract(w) ==
    /\ wk[w].pc = "extract"
    /\ LET res == extract(CurFile(w).bytes)
           l == [wk[w] EXCEPT !.imports = res.imports, !.rules = res.rules,
                              !.comments = res.comments]
       IN  wk' = [wk EXCEPT ![w] =
                    IF NothingFound(res) THEN NextFile(w)
                    ELSE IF res.imports # << >> THEN [l EXCEPT !.pc = "imp_acq"]
                    ELSE AfterImports(w, l)]
    /\ pass_log' = Append(pass_log, [w |-> w, yf |-> CurFile(w).path])
    /\ UNCHANGED << env, main_pc, shards, lock, all_imports, registry,
                    total_rules, total_rules_written, outputs, merged >>

\* a lock that is never found held
LockIgnored(l) == TRUE

\* line 55: threading.Lock, free or held
LockFree(l) == l = 0

\* lock.acquire() at lines 208, 224 and 233
Acquire(w) ==
    /\ wk[w].pc \in {"imp_acq", "batch_acq", "reg_acq"}
    /\ LockFree(lock)
    /\ lock' = w
    /\ wk' = [wk EXCEPT ![w].pc =
                CASE wk[w].pc = "imp_acq" -> "imp_upd"
                  [] wk[w].pc = "batch_acq" -> "batch"
                  [] wk[w].pc = "reg_acq" -> "reg"]
    /\ UNCHANGED << env, main_pc, shards, all_imports, registry, total_rules,
                    total_rules_written, outputs, merged, pass_log >>

\* lines 209-212
MergeImports(w) ==
    /\ wk[w].pc = "imp_upd"
    /\ all_imports' = all_imports \cup {wk[w].imports[i] :
                                          i \in 1..Len(wk[w].imports)}
    /\ lock' = 0
    /\ wk' = [wk EXCEPT ![w] = AfterImports(w,
                [wk[w] EXCEPT !.deduped_content =
                    Concat(wk[w].imports) \o << NL, NL, NL >>])]
    /\ UNCHANGED << env, main_pc, shards, registry, total_rules,
                    total_rules_written, outputs, merged, pass_log >>

\* line 216: os.path.exists(new_yf_commented_rule_dir)
CommentedExists(w) ==
    /\ wk[w].pc = "c_exists"
    /\ wk' = [wk EXCEPT ![w].pc =
                IF RuleDir(CurFile(w).path) \in commented_dirs
                THEN "c_write" ELSE "c_mkdir"]
    /\ UNCHANGED << env, main_pc, shards, lock, all_imports, registry,
                    total_rules, total_rules_written, outputs, merged,
                    pass_log >>

\* line 217: os.mkdir makes the directory
CommentedMkdir(w) ==
    /\ wk[w].pc = "c_mkdir"
    /\ RuleDir(CurFile(w).path) \notin commented_dirs
    /\ commented_dirs' = commented_dirs \cup {RuleDir(CurFile(w).path)}
    /\ wk' = [wk EXCEPT ![w].pc = "c_write"]
    /\ UNCHANGED << env, main_pc, shards, lock, all_imports, registry,
                    total_rules, total_rules_written, commented_files,
                    deduped_dirs, deduped_files, out_log, merged,
                    pass_log >>

\* an exception leaves dedupe: a thread ends with it (threading.Thread.run),
\* and in the main thread it ends the script (dedupe_serial catches only
\* KeyboardInterrupt)
Raised(w) ==
    /\ wk' = [wk EXCEPT ![w].pc = "dead"]
    /\ main_pc' = IF threaded THEN main_pc ELSE "crashed"

\* line 217: os.mkdir finds the directory made since line 216 looked, and
\* raises FileExistsError
CommentedMkdirRaises(w) ==
    /\ wk[w].pc = "c_mkdir"
    /\ RuleDir(CurFile(w).path) \in commented_dirs
    /\ Raised(w)
    /\ UNCHANGED << env, shards, lock, all_imports, registry, total_rules,
                    total_rules_written, outputs, merged, pass_log >>

\* lines 219-221
CommentedWrite(w) ==
    /\ wk[w].pc = "c_write"
    /\ LET yf == CurFile(w).path
           l == wk[w]
       IN  /\ commented_files' =
                WriteFile(commented_files, RuleDir(yf), FileName(yf),
                          ListContents(IF l.imports # << >>
                                       THEN l.imports \o l.comments
                                       ELSE l.comments))
           /\ out_log' = out_log \cup {[tree |-> "commented", yf |-> yf]}
           /\ wk' = [wk EXCEPT ![w] = AfterComments(w, l)]
    /\ UNCHANGED << env, main_pc, shards, lock, all_imports, registry,
                    total_rules, total_rules_written, commented_dirs,
                    deduped_dirs, deduped_files, merged, pass_log >>

\* line 225
SeenAfter(total, rules) == total + Len(rules)

\* lines 225-228
Batch(w) ==
    /\ wk[w].pc = "batch"
    /\ total_rules' = SeenAfter(total_rules, wk[w].rules)
    /\ deduped_dirs' = deduped_dirs \cup {RuleDir(CurFile(w).path)}
    /\ lock' = 0
    /\ wk' = [wk EXCEPT ![w].pc = "reg_acq", ![w].ri = 1]
    /\ UNCHANGED << env, main_pc, shards, all_imports, registry,
                    total_rules_written, commented_dirs, commented_files,
                    deduped_files, out_log, merged, pass_log >>

\* the list of a name set to the file, not added to
DeclaringReplaced(d, rulename, yf) == DictPut(d, rulename, << yf >>)

\* lines 234-235
AppendDeclaring(d, rulename, yf) ==
    DictPut(d, rulename, Append(DictGet(d, rulename), yf))

\* the test of line 237 taking every name for a new one
AlwaysFirstSeen(rulename, names) == TRUE

\* line 237
FirstSeen(rulename, names) == rulename \notin names

\* the rule of the pass of the loop of line 230 the call is in
CurRule(w) == wk[w].rules[wk[w].ri]

\* lines 234-237: the file is added to the name's list and the name looked up
Lookup(w) ==
    /\ wk[w].pc = "reg"
    /\ rule_dict' = AppendDeclaring(rule_dict, RuleName(CurRule(w)),
                                    CurFile(w).path)
    /\ wk' = [wk EXCEPT ![w].pc = "reg_upd",
                        ![w].fresh = FirstSeen(RuleName(CurRule(w)), rule_names)]
    /\ UNCHANGED << env, main_pc, shards, lock, all_imports, all_yara_rules,
                    rule_names, total_duplicate_rules, reg_log, total_rules,
                    total_rules_written, outputs, merged, pass_log >>

\* lines 238-243: the rule is kept or counted as a duplicate, and the lock
\* released
Register(w) ==
    /\ wk[w].pc = "reg_upd"
    /\ LET yf == CurFile(w).path
           l == wk[w]
           r == CurRule(w)
           l2 == IF l.ri < Len(l.rules)
                 THEN [l EXCEPT !.pc = "reg_acq", !.ri = l.ri + 1,
                                !.fresh = FALSE]
                 ELSE [l EXCEPT !.pc = "d_write", !.fresh = FALSE]
       IN  /\ IF l.fresh
              THEN /\ rule_names' = rule_names \cup {RuleName(r)}
                   /\ all_yara_rules' = all_yara_rules \cup {Entry(yf, r)}
                   /\ wk' = [wk EXCEPT ![w] =
                               [l2 EXCEPT !.deduped_content =
                                   l.deduped_content \o Strip(r) \o << NL, NL >>]]
                   /\ UNCHANGED total_duplicate_rules
              ELSE /\ total_duplicate_rules' = total_duplicate_rules + 1
                   /\ wk' = [wk EXCEPT ![w] = l2]
                   /\ UNCHANGED << rule_names, all_yara_rules >>
           /\ reg_log' = Append(reg_log, [name |-> RuleName(r), yf |-> yf,
                                          body |-> r, w |-> w,
                                          accepted |-> l.fresh])
    /\ lock' = 0
    /\ UNCHANGED << env, main_pc, shards, all_imports, rule_dict, total_rules,
                    total_rules_written, outputs, merged, pass_log >>

\* line 246
DedupedWrite(w) ==
    /\ wk[w].pc = "d_write"
    /\ LET yf == CurFile(w).path
       IN  /\ deduped_files' =
                WriteFile(deduped_files, RuleDir(yf), FileName(yf),
                          wk[w].deduped_content)
           /\ out_log' = out_log \cup {[tree |-> "deduped", yf |-> yf]}
    /\ wk' = [wk EXCEPT ![w] = NextFile(w)]
    /\ UNCHANGED << env, main_pc, shards, lock, all_imports, registry,
                    total_rules, total_rules_written, commented_dirs,
                    commented_files, deduped_dirs, merged, pass_log >>

(***************************************************************************)
(* The script body after the dedupe pass (lines 346-364).                  *)
(***************************************************************************)
Finished(w) == wk[w].pc \in {"done", "dead"}

\* lines 280-286: every thread is joined; join returns when its thread has
\* ended, by return or by an exception
Join ==
    /\ main_pc = "join"
    /\ \A w \in 1..Len(shards) : Finished(w)
    /\ main_pc' = "report"
    /\ UNCHANGED << env, shards, wk, lock, all_imports, registry, total_rules,
                    total_rules_written, outputs, merged, pass_log >>

\* line 251: dedupe returns to dedupe_serial
SerialReturn ==
    /\ main_pc = "dedupe"
    /\ wk[1].pc = "done"
    /\ main_pc' = "report"
    /\ UNCHANGED << env, shards, wk, lock, all_imports, registry, total_rules,
                    total_rules_written, outputs, merged, pass_log >>

\* lines 347-358: the duplicate report and the three totals
Report ==
    /\ main_pc = "report"
    /\ total_rules_written' = Cardinality(all_yara_rules)
    /\ main_pc' = "merge"
    /\ UNCHANGED << env, shards, wk, lock, all_imports, registry, total_rules,
                    outputs, merged, pass_log >>

RECURSIVE JoinLines(_)
\* "\n".join(list)
JoinLines(ss) ==
    IF ss = << >> THEN << >>
    ELSE IF Len(ss) = 1 THEN Head(ss)
    ELSE Head(ss) \o << NL >> \o JoinLines(Tail(ss))

\* lines 360-364: list(a_set) takes the elements in the order of the set's
\* table, any order here
Merge ==
    /\ main_pc = "merge"
    /\ \E imps \in Orders(all_imports), kept \in Orders(all_yara_rules) :
         LET rules == sorted(kept)
         IN  /\ all_in_one' = [imports |-> imps, rules |-> rules]
             /\ deduped_files' =
                  WriteFile(deduped_files, ".", "all_in_one.yar",
                            JoinLines(imps) \o << NL, NL >> \o
                            JoinBlank([i \in 1..Len(rules) |->
                                         EntryText(rules[i])]))
    /\ main_pc' = "index"
    /\ UNCHANGED << env, shards, wk, lock, all_imports, registry, total_rules,
                    total_rules_written, commented_dirs, commented_files,
                    deduped_dirs, out_log, index, pass_log >>

\* line 330: the endings of a rule file's name, as a test on the names of the
\* model, all of which end in .yar
EndsWithFileTypes(f) == TRUE

\* line 379: the file names the index leaves out
IndexFilter(f) == f # "all_in_one_rules.yar" /\ EndsWithFileTypes(f)

RECURSIVE WalkDirs(_, _)
\* os.walk below the top directory: the directories ds one after the other,
\* each with its files in the order fs has them
WalkDirs(ds, fs) ==
    IF ds = << >> THEN << >>
    ELSE SelectSeq(fs, LAMBDA f : f.dir = Head(ds)) \o WalkDirs(Tail(ds), fs)

\* line 378: os.walk(yara_deduped_rules_path) lists the files of the top
\* directory, then those of each directory under it; listdir gives the
\* directories and the files of a directory in no fixed order
Walks ==
    LET top == {f \in deduped_files : f.dir = "."}
        below == deduped_files \ top
        at(f) == [dir |-> f.dir, name |-> f.name]
    IN  {[i \in 1..Len(w) |-> at(w[i])] :
           w \in {t \o WalkDirs(ds, fs) :
                    t \in Orders(top), ds \in Orders(deduped_dirs),
                    fs \in Orders(below)}}

\* lines 385-388: itertools.groupby, the runs of files of one directory, in
\* order, as pairs of the directory and its files
RECURSIVE GroupBy(_)
GroupBy(fs) ==
    IF fs = << >> THEN << >>
    ELSE LET rest == GroupBy(Tail(fs))
         IN  IF rest # << >> /\ rest[1].key = Head(fs).dir
             THEN << [key |-> Head(fs).dir,
                      group |-> << Head(fs) >> \o rest[1].group] >>
                      \o Tail(rest)
             ELSE << [key |-> Head(fs).dir, group |-> << Head(fs) >>] >>
                      \o rest

\* lines 378-389: index.yar has an include line for each file listed, and
\* <key>_index.yar has those of one group
Index ==
    /\ main_pc = "index"
    /\ \E walk \in Walks :
         LET yara_files == SelectSeq(walk, LAMBDA f : IndexFilter(f.name))
         IN  index' = [walk |-> walk, lines |-> yara_files,
                       groups |-> GroupBy(yara_files)]
    /\ main_pc' = "done"
    /\ UNCHANGED << env, shards, wk, lock, all_imports, registry, total_rules,
                    total_rules_written, outputs, all_in_one, pass_log >>

Next ==
    \/ StartSerial
    \/ StartThreaded
    \/ \E w \in Workers :
         \/ Extract(w)
         \/ Acquire(w)
         \/ MergeImports(w)
         \/ CommentedExists(w)
         \/ CommentedMkdir(w)
         \/ CommentedMkdirRaises(w)
         \/ CommentedWrite(w)
         \/ Batch(w)
         \/ Lookup(w)
         \/ Register(w)
         \/ DedupedWrite(w)
    \/ Join
    \/ SerialReturn
    \/ Report
    \/ Merge
    \/ Index

\* a run on a file system that raises no error of its own
Spec == Init /\ [][Next]_vars

(***************************************************************************)
(* Input/output errors: os.mkdir and io.open raise OSError (no permission, *)
(* no space, a file in the way), f.write raises it too.                    *)
(***************************************************************************)
Fault ==
    /\ io_faults < MaxFaults
    /\ io_faults' = io_faults + 1
    /\ UNCHANGED << threaded, files, spin_threads >>

\* line 217: os.mkdir raises
CommentedMkdirFails(w) ==
    /\ wk[w].pc = "c_mkdir"
    /\ Fault
    /\ Raised(w)
    /\ UNCHANGED << shards, lock, all_imports, registry, total_rules,
                    total_rules_written, outputs, merged, pass_log >>

\* lines 225-227: os.mkdir raises between lock.acquire() and lock.release()
BatchMkdirFails(w) ==
    /\ wk[w].pc = "batch"
    /\ RuleDir(CurFile(w).path) \notin deduped_dirs
    /\ Fault
    /\ total_rules' = SeenAfter(total_rules, wk[w].rules)
    /\ Raised(w)
    /\ UNCHANGED << shards, lock, all_imports, registry, total_rules_written,
                    outputs, merged, pass_log >>

\* write_file, line 109: io.open raises, outside the try of line 110
OpenFails(w) ==
    /\ wk[w].pc \in {"c_write", "d_write"}
    /\ Fault
    /\ Raised(w)
    /\ UNCHANGED << shards, lock, all_imports, registry, total_rules,
                    total_rules_written, outputs, merged, pass_log >>

\* write_file, lines 110-115: f.write raises, the error is printed and
\* write_file returns; the file is there, cut short
WriteFails(w) ==
    /\ wk[w].pc \in {"c_write", "d_write"}
    /\ Fault
    /\ LET yf == CurFile(w).path
       IN  IF wk[w].pc = "c_write"
           THEN /\ commented_files' =
                     WriteFile(commented_files, RuleDir(yf), FileName(yf), << >>)
                /\ wk' = [wk EXCEPT ![w] = AfterComments(w, wk[w])]
                /\ UNCHANGED deduped_files
           ELSE /\ deduped_files' =
                     WriteFile(deduped_files, RuleDir(yf), FileName(yf), << >>)
                /\ wk' = [wk EXCEPT ![w] = NextFile(w)]
                /\ UNCHANGED commented_files
    /\ UNCHANGED << main_pc, shards, lock, all_imports, registry, total_rules,
                    total_rules_written, commented_dirs, deduped_dirs, out_log,
                    merged, pass_log >>

NextIO ==
    \/ Next
    \/ \E w \in Workers :
         \/ CommentedMkdirFails(w)
         \/ BatchMkdirFails(w)
         \/ OpenFails(w)
         \/ WriteFails(w)

\* a run on a file system that may raise errors
SpecIO == Init /\ [][NextIO]_vars

(***************************************************************************)
(* The scheduler by itself: threaded runs over longer lists of files that  *)
(* hold nothing (an empty file is passed over at line 204), with pools of  *)
(* every size up to MaxSpin.                                               *)
(***************************************************************************)
SchedNames ==
    << "f1.yar", "f2.yar", "f3.yar", "f4.yar", "f5.yar", "f6.yar", "f7.yar",
       "f8.yar", "f9.yar" >>

SchedLists ==
    {[i \in 1..n |-> [path |-> << "in", "s", SchedNames[i] >>, bytes |-> << >>]] :
       n \in 1..Min(MaxSchedFiles, Len(SchedNames))}

InitSched ==
    /\ threaded = TRUE
    /\ files \in SchedLists
    /\ spin_threads \in 1..MaxSpin
    /\ Fresh

NextSched ==
    \/ StartThreaded
    \/ \E w \in Workers : Extract(w)
    \/ Join

SpecSched == InitSched /\ [][NextSched]_vars


(***************************************************************************)
(* What the claims are stated with.                                        *)
(***************************************************************************)
\* the dedupe pass is over and the script body is past line 344
AfterPass == main_pc \in {"report", "merge", "index", "done"}

RECURSIVE BlocksOf(_)
\* the rule blocks of a file list, in the order one dedupe call over the
\* whole list meets them
BlocksOf(fs) ==
    IF fs = << >> THEN << >>
    ELSE LET rs == extract(Head(fs).bytes).rules
         IN  [i \in 1..Len(rs) |-> [yf |-> Head(fs).path, r |-> rs[i]]]
                 \o BlocksOf(Tail(fs))

\* block i of bs is the first of bs with its name
FirstOfName(bs, i) ==
    \A j \in 1..(i - 1) : RuleName(bs[j].r) # RuleName(bs[i].r)

\* the kept rules of a run that takes the blocks bs one after the other
FirstSeenKept(bs) ==
    {Entry(bs[i].yf, bs[i].r) : i \in {j \in 1..Len(bs) : FirstOfName(bs, j)}}

KeptNames == {RuleName(e.body) : e \in all_yara_rules}

\* the files named in the registrations of name n, in order
Declaring(n) ==
    LET es == SelectSeq(reg_log, LAMBDA e : e.name = n)
    IN  [i \in 1..Len(es) |-> es[i].yf]

\* file i of the slice of call w has been through the whole loop body
Processed(w, i) ==
    i < wk[w].fi \/ (i = wk[w].fi /\ wk[w].pc = "done")

Undecodable(bytes) ==
    \A i \in 1..Len(encodings) : ~Decode(encodings[i], bytes).ok

(***************************************************************************)
(* C1.  At the end of a run the kept set holds exactly one body for every  *)
(* registered name, and the kept names are those a sequential run over the *)
(* same files keeps (every name of a block of the files), whatever the     *)
(* worker count and the interleaving.                                      *)
(***************************************************************************)
C1_Uniqueness ==
    AfterPass =>
        /\ \A n \in rule_names :
             Cardinality({e \in all_yara_rules : RuleName(e.body) = n}) = 1
        /\ KeptNames = rule_names
        /\ KeptNames = {RuleName(e.body) : e \in FirstSeenKept(BlocksOf(files))}

(***************************************************************************)
(* C2.  Of the registrations of one name, made by any number of workers in *)
(* any interleaving, exactly one is accepted (the first, whose body enters *)
(* the kept set), every other adds one to the duplicate counter, and the   *)
(* name's list holds the file of every one of them.                        *)
(***************************************************************************)
C2_AtomicRegister ==
    /\ \A i \in DOMAIN reg_log :
         reg_log[i].accepted <=>
             \A j \in 1..(i - 1) : reg_log[j].name # reg_log[i].name
    /\ all_yara_rules =
         {Entry(reg_log[i].yf, reg_log[i].body) :
            i \in {j \in DOMAIN reg_log : reg_log[j].accepted}}
    /\ total_duplicate_rules =
         Cardinality({i \in DOMAIN reg_log : ~reg_log[i].accepted})
    /\ lock = 0 =>
         /\ DOMAIN rule_dict = {reg_log[i].name : i \in DOMAIN reg_log}
         /\ \A n \in DOMAIN rule_dict : rule_dict[n] = Declaring(n)

\* two workers have registered the same name, one after the other
C2_Witness ==
    \E i, j \in DOMAIN reg_log :
        /\ i < j
        /\ reg_log[i].name = reg_log[j].name
        /\ reg_log[i].w # reg_log[j].w
        /\ lock = 0
        /\ rule_dict[reg_log[i].name] = << reg_log[i].yf, reg_log[j].yf >>

(***************************************************************************)
(* C3.  In every state of a run, total_rules is the size of the kept set   *)
(* plus total_duplicate_rules.                                             *)
(***************************************************************************)
C3_Accounting ==
    total_rules = Cardinality(all_yara_rules) + total_duplicate_rules

(***************************************************************************)
(* C4.  In a single-threaded run the blocks are registered in the order of *)
(* the file list and of each file; the kept body of a name is that of its  *)
(* first block, and every later block of the name is rejected and counted  *)
(* once, whether it is in another file or in the same one.                 *)
(***************************************************************************)
C4_FirstSeenWins ==
    ~threaded =>
        LET bs == BlocksOf(files)
            k == Len(reg_log)
        IN  /\ k <= Len(bs)
            /\ \A i \in 1..k :
                 /\ reg_log[i].yf = bs[i].yf
                 /\ reg_log[i].body = bs[i].r
                 /\ reg_log[i].accepted <=> FirstOfName(bs, i)
            /\ all_yara_rules = FirstSeenKept(SubSeq(bs, 1, k))
            /\ total_duplicate_rules =
                 Cardinality({i \in 1..k : ~FirstOfName(bs, i)})
            /\ lock = 0 =>
                 \A n \in DOMAIN rule_dict : rule_dict[n] = Declaring(n)
            /\ AfterPass => k = Len(bs)

\* the run over a/x.yar with Foo and b/y.yar with Foo and Bar has ended
C4_Witness ==
    /\ ~threaded
    /\ main_pc = "done"
    /\ files = << TreeDuplicates[1], TreeDuplicates[2] >>
    /\ all_yara_rules = {Entry(<< "in", "a", "x.yar" >>, FooTrue),
                         Entry(<< "in", "b", "y.yar" >>, BarTrue)}
    /\ total_duplicate_rules = 1
    /\ rule_dict[<< "rule", SP, "Foo" >>] =
         << << "in", "a", "x.yar" >>, << "in", "b", "y.yar" >> >>

(***************************************************************************)
(* C5.  An error in making an output directory or in opening or writing an *)
(* output file never ends a dedupe call: the call goes on to the files     *)
(* that follow in its list.                                                *)
(***************************************************************************)
C5_FailureNeverAborts == \A w \in Workers : wk[w].pc # "dead"

(***************************************************************************)
(* C6.  In a threaded run, when the script body goes on to the report and  *)
(* the merged artifact every worker has ended, and each worker has taken   *)
(* the files of its slice, each once, in the order of the slice.           *)
(***************************************************************************)
C6_JoinBarrier ==
    (threaded /\ AfterPass) =>
        \A w \in 1..Len(shards) :
            /\ Finished(w)
            /\ LET mine == SelectSeq(pass_log, LAMBDA e : e.w = w)
               IN  [i \in 1..Len(mine) |-> mine[i].yf] =
                       [i \in 1..Len(shards[w]) |-> shards[w][i].path]

(***************************************************************************)
(* C7.  The rule section of the merged artifact is the same for every run  *)
(* over the same files: that of the sequential run, whatever the worker    *)
(* count and the interleaving (here: of the runs no worker of which ended  *)
(* early).                                                                 *)
(***************************************************************************)
C7_SameForEveryRun ==
    (main_pc = "done" /\ \A w \in Workers : wk[w].pc # "dead") =>
        {all_in_one.rules[i] : i \in DOMAIN all_in_one.rules}
            = FirstSeenKept(BlocksOf(files))

(***************************************************************************)
(* C7, amended.  The rule section of the merged artifact is the kept set   *)
(* in ascending order of the annotated text, each kept rule once, whatever *)
(* order the workers added them in and the set lists them in; in a         *)
(* sequential run the kept set, and so the section, is fixed by the file   *)
(* list.                                                                   *)
(***************************************************************************)
C7_SortedKeptSet ==
    main_pc = "done" =>
        LET rs == all_in_one.rules
        IN  /\ Len(rs) = Cardinality(all_yara_rules)
            /\ {rs[i] : i \in DOMAIN rs} = all_yara_rules
            /\ \A i, j \in DOMAIN rs :
                 i < j => LexLess(EntryText(rs[i]), EntryText(rs[j]))
            /\ ~threaded => all_yara_rules = FirstSeenKept(BlocksOf(files))

\* a threaded run in which two workers registered the same name has written
\* a merged artifact of two rules or more
C7_Witness ==
    /\ main_pc = "done"
    /\ threaded
    /\ Len(all_in_one.rules) >= 2
    /\ \E i, j \in DOMAIN reg_log :
         reg_log[i].name = reg_log[j].name /\ reg_log[i].w # reg_log[j].w

(***************************************************************************)
(* C8.  A file that has been processed has a kept-rule artifact if and     *)
(* only if one of its blocks was accepted.                                 *)
(***************************************************************************)
C8_PerFileOutput ==
    \A w \in 1..Len(shards) : \A i \in 1..Len(shards[w]) :
        Processed(w, i) =>
            ([tree |-> "deduped", yf |-> shards[w][i].path] \in out_log
                <=> \E e \in all_yara_rules : e.from = shards[w][i].path)

\* the place in the list of the first codec that decodes bytes
FirstCodec(bytes) ==
    CHOOSE i \in 1..Len(encodings) :
        /\ Decode(encodings[i], bytes).ok
        /\ \A j \in 1..(i - 1) : ~Decode(encodings[j], bytes).ok

\* what a step of call w that extracts its file does
C9_ExtractStep(w) ==
    (wk[w].pc = "extract" /\ wk'[w] # wk[w]) =>
        LET b == CurFile(w).bytes
        IN  IF Undecodable(b) \/ Decode(encodings[FirstCodec(b)], b).text = << >>
            THEN /\ wk'[w] = NextFile(w)
                 /\ UNCHANGED << lock, all_imports, registry, total_rules,
                                 outputs >>
            ELSE LET ref == ExtractContent(
                                Decode(encodings[FirstCodec(b)], b).text)
                 IN  IF NothingFound(ref) THEN wk'[w] = NextFile(w)
                     ELSE /\ wk'[w].imports = ref.imports
                          /\ wk'[w].rules = ref.rules
                          /\ wk'[w].comments = ref.comments

\* the file of the run at path yf is read by one codec at least
Decodable(yf) ==
    \A k \in DOMAIN files : files[k].path = yf => ~Undecodable(files[k].bytes)

(***************************************************************************)
(* C9.  The step that extracts a file uses the content read by the first   *)
(* codec of the list that decodes the file; when no codec decodes it the   *)
(* step changes no counter, no registry entry and no output, and the call  *)
(* goes to the next file; no step adds an artifact or a registration that  *)
(* names such a file.                                                      *)
(***************************************************************************)
C9_UndecodableSkipped ==
    [][/\ \A w \in Workers : C9_ExtractStep(w)
       /\ \A o \in out_log' \ out_log : Decodable(o.yf)
       /\ \A i \in DOMAIN reg_log' \ DOMAIN reg_log : Decodable(reg_log'[i].yf)
      ]_vars

\* a run has passed a file no codec decodes and written an artifact for the
\* file after it
C9_Witness ==
    /\ main_pc = "done"
    /\ \E k \in 1..(Len(files) - 1) :
         /\ Undecodable(files[k].bytes)
         /\ \E o \in out_log : o.yf = files[k + 1].path

\* token p of c is in a block comment or on a line that starts with //
InComment(c, p) ==
    \/ \E a \in 1..(p - 1) : c[a] = "/*" /\ FindFrom(c, a + 1, "*/") > p
    \/ \E q \in 1..p :
         /\ AtLineStart(c, q)
         /\ c[q] = "//"
         /\ \A j \in q..p : c[j] # NL

\* c has a rule keyword, and each one it has is in a comment
CommentedOnly(c) ==
    /\ \E p \in DOMAIN c : c[p] = "rule"
    /\ \A p \in DOMAIN c : c[p] = "rule" => InComment(c, p)

(***************************************************************************)
(* C10.  A file whose rule blocks are all commented out registers nothing, *)
(* adds nothing to the kept set, and has one artifact in the commented     *)
(* tree once it is processed.                                              *)
(***************************************************************************)
C10_CommentExclusion ==
    \A w \in 1..Len(shards) : \A i \in 1..Len(shards[w]) :
        CommentedOnly(ReadContent(shards[w][i].bytes)) =>
            /\ \A k \in DOMAIN reg_log : reg_log[k].yf # shards[w][i].path
            /\ \A e \in all_yara_rules : e.from # shards[w][i].path
            /\ Processed(w, i) =>
                 [tree |-> "commented", yf |-> shards[w][i].path] \in out_log

\* the artifacts written for the rule files, by place in the deduped tree
PerFileArtifacts ==
    {[dir |-> f.dir, name |-> f.name] : f \in {g \in deduped_files : g.dir # "."}}

(***************************************************************************)
(* C11.  When the index files are written, index.yar has one include line  *)
(* for each per-file kept-rule artifact, in the order of the walk, and     *)
(* none for all_in_one.yar; and there is a <directory>_index.yar for each  *)
(* directory under deduped_rules that holds an artifact, and for nothing   *)
(* else.                                                                   *)
(***************************************************************************)
C11_GlobalIndex ==
    main_pc = "done" =>
        /\ index.lines = SelectSeq(index.walk, LAMBDA f : f.dir # ".")
        /\ {index.lines[i] : i \in DOMAIN index.lines} = PerFileArtifacts
        /\ Len(index.lines) = Cardinality(PerFileArtifacts)
        /\ {index.groups[i].key : i \in DOMAIN index.groups}
             = {f.dir : f \in PerFileArtifacts}

(***************************************************************************)
(* C12.  Every path that takes the lock gives it back: a dedupe call that  *)
(* an error has ended does not hold the lock, so no other call waits for   *)
(* it forever.                                                             *)
(***************************************************************************)
C12_LockReleased ==
    \A w \in Workers : wk[w].pc = "dead" => lock # w

\* where a dedupe call is between a lock.acquire() and the lock.release()
\* after it: lines 209, 225-227 and 234-242
LockedSteps == {"imp_upd", "batch", "reg", "reg_upd"}

\* the state the workers share
shared ==
    << all_imports, total_rules, rule_dict, rule_names, all_yara_rules,
       total_duplicate_rules >>

(***************************************************************************)
(* C13.  Every step that changes the shared state is taken by the worker   *)
(* that holds the lock, in one of its locked sections; and a worker holds  *)
(* the lock exactly while it is in a locked section, so one worker at most *)
(* is in one, and the lock is not held by a worker that is extracting a    *)
(* file, writing an artifact, or gone.                                     *)
(***************************************************************************)
C13_LockDiscipline ==
    [][/\ shared' # shared =>
            /\ lock # 0
            /\ wk[lock].pc \in LockedSteps
            /\ wk'[lock] # wk[lock]
       /\ \A w \in Workers : wk'[w].pc \in LockedSteps <=> lock' = w
      ]_vars

(***************************************************************************)
(* C14.  The step that cuts a list of n >= 1 files for a pool of size p    *)
(* gives non-empty slices whose concatenation, in order, is the list: with *)
(* p capped at n and size = n \div p, every slice has size files but the   *)
(* last, which has the files left, size at most.                           *)
(***************************************************************************)
C14_ShardPartition ==
    [][(main_pc = "start" /\ main_pc' = "join") =>
          LET n == Len(files)
              size == n \div Min(spin_threads, n)
          IN  /\ Concat(shards') = files
              /\ \A k \in DOMAIN shards' :
                   /\ shards'[k] # << >>
                   /\ Len(shards'[k]) <= size
                   /\ k < Len(shards') => Len(shards'[k]) = size
      ]_vars

\* five files are cut for a pool of two in slices of two, two and one, and
\* each slice has been given to a worker
C14_Witness ==
    /\ main_pc = "join"
    /\ Len(files) = 5
    /\ Len(shards) = 3
    /\ Len(shards[1]) = 2 /\ Len(shards[2]) = 2 /\ Len(shards[3]) = 1
    /\ \A w \in 1..3 : wk[w].pc # "idle"

(***************************************************************************)
(* C15.  In a threaded run the number of slices, and so of workers         *)
(* started, is the configured size of the pool (capped at the number of    *)
(* files) and never more than it.                                          *)
(***************************************************************************)
C15_BoundedPool ==
    (threaded /\ main_pc # "start") =>
        /\ Len(shards) = Min(SpinThreads, Len(files))
        /\ Cardinality({w \in Workers : wk[w].pc # "idle"}) <= SpinThreads

(***************************************************************************)
(* C16.  When the pool has one thread at most, or the files are no more    *)
(* than the pool, the files are processed one after the other in the order *)
(* of the list: at no time are two dedupe calls at work, and the files     *)
(* taken so far are the first of the list, in order.                       *)
(***************************************************************************)
C16_SequentialDegrade ==
    (SpinThreads <= 1 \/ Len(files) <= SpinThreads) =>
        /\ Cardinality({w \in Workers :
                          wk[w].pc \notin {"idle", "done", "dead"}}) <= 1
        /\ Len(pass_log) <= Len(files)
        /\ \A i \in DOMAIN pass_log : pass_log[i].yf = files[i].path

(***************************************************************************)
(* C17.  The output of a file needs no lock: whatever the interleaving of  *)
(* the workers, also of two whose files go to the same output directory,   *)
(* no worker is ended by the creation of the commented-rules directory,    *)
(* and every file processed has its commented-rules artifact if it has     *)
(* comments and its kept-rules artifact if it has rules.                   *)
(***************************************************************************)
C17_WorkerLocalOutput ==
    \A w \in 1..Len(shards) :
        /\ wk[w].pc # "dead"
        /\ \A i \in 1..Len(shards[w]) :
             Processed(w, i) =>
                 LET yf == shards[w][i].path
                     res == extract(shards[w][i].bytes)
                 IN  /\ res.comments # << >> =>
                          [tree |-> "commented", yf |-> yf] \in out_log
                     /\ res.rules # << >> =>
                          [tree |-> "deduped", yf |-> yf] \in out_log

\* the identifier of a rule block: the word after the rule keyword
Identifier(r) ==
    LET k == CHOOSE p \in DOMAIN r : r[p] = "rule" /\ \A q \in 1..(p - 1) : r[q] # "rule"
    IN  r[SkipWhile(r, k + 1, WhiteSpace)]

(***************************************************************************)
(* C18.  Two blocks with the same identifier are registered under the same *)
(* name, so the later one is rejected, also when one of them is private    *)
(* and the other is not, or when their tag lists differ.                   *)
(***************************************************************************)
C18_RuleNameNormalised ==
    \A i, j \in DOMAIN reg_log :
        (i < j /\ Identifier(reg_log[i].body) = Identifier(reg_log[j].body)) =>
            /\ reg_log[i].name = reg_log[j].name
            /\ ~reg_log[j].accepted

RECURSIVE SumOver(_, _)
\* the sum of f[n] for n in S
SumOver(f, S) ==
    IF S = {} THEN 0
    ELSE LET n == CHOOSE x \in S : TRUE
         IN  f[n] + SumOver(f, S \ {n})

(***************************************************************************)
(* C19.  Whenever no registration is under way: a name is in rule_names    *)
(* if and only if rule_dict has a list for it; the list has the file of    *)
(* each registration of the name, accepted or rejected, in the order they  *)
(* were made, a file as many times as it repeats the name; the list is     *)
(* longer than 1 if and only if the name was rejected once at least; and   *)
(* total_duplicate_rules is the sum over the names of the length of the    *)
(* list less one.                                                          *)
(***************************************************************************)
C19_ProvenanceLists ==
    (\A w \in Workers : wk[w].pc # "reg_upd") =>
        /\ DOMAIN rule_dict = rule_names
        /\ \A n \in rule_names :
             /\ rule_dict[n] = Declaring(n)
             /\ Len(rule_dict[n]) > 1 <=>
                  \E i \in DOMAIN reg_log :
                      reg_log[i].name = n /\ ~reg_log[i].accepted
        /\ total_duplicate_rules =
             SumOver([n \in rule_names |-> Len(rule_dict[n]) - 1], rule_names)

\* Foo is declared by a/x.yar, by b/y.yar and twice by b/z.yar
C19_Witness ==
    /\ \A w \in Workers : wk[w].pc # "reg_upd"
    /\ << "rule", SP, "Foo" >> \in rule_names
    /\ Len(rule_dict[<< "rule", SP, "Foo" >>]) = 4
    /\ \E i \in 1..3 :
         /\ rule_dict[<< "rule", SP, "Foo" >>][i] = << "in", "b", "z.yar" >>
         /\ rule_dict[<< "rule", SP, "Foo" >>][i + 1] = << "in", "b", "z.yar" >>
    /\ total_duplicate_rules >= 3

\* the rule blocks a kept-rule artifact holds
BlocksIn(text) ==
    LET found == FindAll("rules_re", text, 1)
    IN  [i \in 1..Len(found) |-> CleanRule(found[i])]

\* the blocks accepted from the file at yf, in the order they were
AcceptedFrom(yf) ==
    LET es == SelectSeq(reg_log, LAMBDA e : e.yf = yf /\ e.accepted)
    IN  [i \in 1..Len(es) |-> Strip(es[i].body)]

(***************************************************************************)
(* C20.  At the end of a run, for every source file that had a block       *)
(* accepted, the artifact at deduped_rules/<name of its directory>/<its    *)
(* file name> holds the blocks accepted from that file and no other, also  *)
(* when two source paths have the same directory name and file name.       *)
(***************************************************************************)
C20_ArtifactsPreserveKept ==
    main_pc = "done" =>
        \A k \in DOMAIN files :
            LET yf == files[k].path
            IN  AcceptedFrom(yf) # << >> =>
                    \E f \in deduped_files :
                        /\ f.dir = RuleDir(yf)
                        /\ f.name = FileName(yf)
                        /\ BlocksIn(f.text) = AcceptedFrom(yf)

=============================================================================
